---- MODULE Spec2Model ----
(***************************************************************************)
(* A model of package cubby (src/cubby.go): Item, Cache (a map guarded by  *)
(* a sync.RWMutex) and TickingCache (a Cache with a time.Ticker and a Job). *)
(* Every Cache method is split at its lock operations, so that the          *)
(* interleavings of concurrent callers are those the Go scheduler allows.   *)
(***************************************************************************)
EXTENDS Integers, FiniteSets, TLC

VARIABLES
    clock,   \* the wall clock read by time.Now().UTC()
    items,   \* Cache.items: a function from the keys present to their Item
    mu,      \* Cache.mu: [writer |-> a writer holds it, readers |-> number of readers]
    pc,      \* pc[t]: the position of thread t ("idle": between two calls)
    arg,     \* arg[t]: the call thread t is executing (or executed last)
    todo,    \* todo[t]: keys the range loop of ClearExpired has yet to visit
    seen,    \* seen[t]: history, key -> clock value IsExpired read for it
    ret,     \* ret[t]: what thread t has read under the read lock
    lin,     \* history: the plain map of the operations that have unlocked
    ticker,  \* TickingCache.ticker: NilTicker, or the time.Ticker it points to
    job,     \* TickingCache.Job: NilJob, or the function assigned
    timers,  \* the tickers created so far: timers[id] = [active, buf]
    ch,      \* ch[t]: the ticker whose channel the range loop of t receives from
    inJob,   \* inJob[t]: the Job invocation thread t is executing, or NoJob
    stopped, \* history: a call of Stop has returned
    invoked  \* history: the function invoked since Job was last assigned, or NoJob

tickVars == <<ticker, job, timers, ch, inJob, stopped, invoked>>

vars == <<clock, items, mu, pc, arg, todo, seen, ret, lin, tickVars>>

\* The record of a call in progress: the method, its arguments, the clock
\* value it read and the Item it hands to SetItem.
Call(op, key, value, life, now, item) == [op |-> op, key |-> key, value |-> value, life |-> life, now |-> now, item |-> item]

----------------------------------------------------------------------------
(* Bounds of the model *)

\* the clock runs from ClockStart to MaxClock
MaxClock == 4
\* lifetimes handed to SetToExpire run from -MaxLife to MaxLife
MaxLife == 1
\* number of threads of the concurrent Set scenario
NSet == 3

\* time.Time{}: the zero time, for which IsZero() holds
ZeroTime == 0

\* The clock starts late enough that now.Add(lifetime) is never the zero time
\* (the zero time is year 1; a Duration spans at most about 292 years).
ClockStart == ZeroTime + MaxLife + 1

\* a time before every reading of the clock ("past" in the tests)
Past == ClockStart - 1

\* the lifetimes passed to SetToExpire: the longest one either way, and none
Lifetimes == {0 - MaxLife, 0, MaxLife}

Keys == {1, 2}
\* the values handed to Set, to SetToExpire and (in an Item) to SetItem
Values == {7}
ExpiringValues == {9}
ItemValues == {3}
Callers == {1, 2}
SetThreads == 1..NSet
\* the goroutine NewTickingCache starts, and the thread that called it
Goroutines == {0}
TickCallers == {1}
\* the goroutine in which a caller calls Start itself (Start never returns)
Starters == {NSet + 1}
\* the threads that run a tick loop
Loops == Goroutines \cup Starters
Procs == Callers \cup SetThreads \cup Loops

----------------------------------------------------------------------------
(* Item *)

\* the zero value of V (int in the tests)
ZeroValue == 0

ZeroItem == [Value |-> ZeroValue, CreatedAt |-> ZeroTime, ExpiredAt |-> ZeroTime]

IsZero(time) == time = ZeroTime

After(t1, t2) == t1 > t2

AfterOrEqual(t1, t2) == t1 >= t2

IsExpiredBefore(i, nowUTC) == ~IsZero(i.ExpiredAt) /\ nowUTC < i.ExpiredAt

IsExpiredNoZeroCheck(i, nowUTC) == After(nowUTC, i.ExpiredAt)

IsExpiredInclusive(i, nowUTC) == ~IsZero(i.ExpiredAt) /\ AfterOrEqual(nowUTC, i.ExpiredAt)

\* Item.IsExpired, with the value of time.Now().UTC() it reads as nowUTC
IsExpired(i, nowUTC) == ~IsZero(i.ExpiredAt) /\ After(nowUTC, i.ExpiredAt)

NewItemExpiring(value, nowUTC) == [Value |-> value, CreatedAt |-> nowUTC, ExpiredAt |-> nowUTC]

\* the Item literal of Set: no ExpiredAt, so the zero time
NewItem(value, nowUTC) == [Value |-> value, CreatedAt |-> nowUTC, ExpiredAt |-> ZeroTime]

NewExpiringItemFromZero(value, nowUTC, lifetime) == [Value |-> value, CreatedAt |-> nowUTC, ExpiredAt |-> ZeroTime + lifetime]

\* the Item literal of SetToExpire: ExpiredAt is now.Add(lifetime)
NewExpiringItem(value, nowUTC, lifetime) == [Value |-> value, CreatedAt |-> nowUTC, ExpiredAt |-> nowUTC + lifetime]

\* the items a caller hands to SetItem directly (the tests' "past" item)
ItemInputs == { [Value |-> v, CreatedAt |-> Past, ExpiredAt |-> Past] : v \in ItemValues }

----------------------------------------------------------------------------
(* The map *)

EmptyMap == [k \in {} |-> ZeroItem]

MapStoreMerge(m, key, item) == [k \in (DOMAIN m) \cup {key} |-> IF k = key THEN (IF key \in DOMAIN m /\ ~IsZero(m[key].ExpiredAt) THEN [Value |-> item.Value, CreatedAt |-> item.CreatedAt, ExpiredAt |-> m[key].ExpiredAt] ELSE item) ELSE m[k]]

\* m[key] = item
MapStore(m, key, item) == [k \in (DOMAIN m) \cup {key} |-> IF k = key THEN item ELSE m[k]]

MapDeleteAll(m, key) == IF key \in DOMAIN m THEN [k \in {} |-> ZeroItem] ELSE m

\* delete(m, key)
MapDelete(m, key) == [k \in (DOMAIN m) \ {key} |-> m[k]]

LookupFresh(m, key) == IF key \in DOMAIN m /\ ~IsExpired(m[key], clock) THEN [item |-> m[key], ok |-> TRUE] ELSE [item |-> ZeroItem, ok |-> FALSE]

\* item, ok := m[key]
Lookup(m, key) == IF key \in DOMAIN m THEN [item |-> m[key], ok |-> TRUE] ELSE [item |-> ZeroItem, ok |-> FALSE]

\* Cache.Get on a map: GetItem's item.Value and ok
MapGet(m, key) == [value |-> Lookup(m, key).item.Value, ok |-> Lookup(m, key).ok]

\* Cache.Len on a map
MapLen(m) == Cardinality(DOMAIN m)

----------------------------------------------------------------------------
(* sync.RWMutex *)

\* writer: a thread holds the mutex for writing; readers: how many hold it for
\* reading; pending: the writer that has called Lock and waits for the readers
\* to leave; rwait: the readers that have called RLock and are blocked
Unlocked == [writer |-> FALSE, readers |-> 0, pending |-> {}, rwait |-> {}]

CanLockAlways == TRUE

CanRLockAlways == TRUE

\* Lock blocks while a writer or a reader holds the mutex
CanLock == ~mu.writer /\ mu.readers = 0

\* RLock blocks while a writer holds the mutex or waits for it
CanRLock == ~mu.writer /\ mu.pending = {}

\* where a blocked reader goes on when Unlock hands it the mutex
AfterRLock(p) ==
    CASE p = "GetItem_RLock" -> "GetItem_load"
      [] p = "Items_RLock" -> "Items_copy"
      [] OTHER -> "Len_len"

\* the positions at which a thread is about to write the map
WritePcs == {"SetItem_store", "Delete_delete", "Clear_make", "ClearExpired_range"}

\* the positions at which a thread is about to read the map
ReadPcs == {"GetItem_load", "Items_copy", "Len_len"}

\* the positions between Lock and Unlock, and between RLock and RUnlock
WriterCs == WritePcs \cup {"SetItem_Unlock", "Delete_Unlock", "Clear_Unlock"}
ReaderCs == ReadPcs \cup {"GetItem_RUnlock", "Items_RUnlock", "Len_RUnlock"}

\* A write of the map by t that no lock orders with another thread's access is
\* a data race: the write may take effect or be lost.
Racing(t) == \E u \in Procs \ {t} : pc[u] \in WritePcs \cup ReadPcs

WriteOutcomes(t, new) == IF Racing(t) THEN {new, items} ELSE {new}

\* a nil *time.Ticker, a nil func(), and no Job invocation in progress
NilTicker == 0
NilJob == "nil"
NoJob == "none"
\* the functions assigned to Job: the tests' func() { cache.ClearExpired() },
\* and a function that does not touch the cache
Jobs == {"sweep", "other"}

NoArg == [op |-> "none"]
NoRet == [none |-> TRUE]
NoSeen == [k \in {} |-> ZeroTime]

----------------------------------------------------------------------------
(* Steps shared by the methods *)

\* thread t, between two calls, starts call a
Enter(t, a, to) ==
    /\ pc[t] = "idle"
    /\ arg' = [arg EXCEPT ![t] = a]
    /\ pc' = [pc EXCEPT ![t] = to]
    /\ UNCHANGED <<clock, items, mu, todo, seen, ret, lin, tickVars>>

\* where a method returns to: the caller thread, or the Job that called it
ReturnPc(t) == IF inJob[t] = NoJob THEN "idle" ELSE "Job_return"

\* c.mu.Lock()
Lock(t, from, to) ==
    /\ pc[t] = from
    /\ CanLock
    /\ mu.pending \subseteq {t}
    /\ mu' = [mu EXCEPT !.writer = TRUE, !.pending = {}]
    /\ pc' = [pc EXCEPT ![t] = to]

\* the deferred c.mu.Unlock(), and the return to the caller; Unlock hands the
\* mutex to the readers that were blocked behind the writer
Unlock(t, from) ==
    /\ pc[t] = from
    /\ mu' = [mu EXCEPT !.writer = FALSE, !.readers = @ + Cardinality(mu.rwait), !.rwait = {}]
    /\ pc' = [u \in Procs |-> IF u = t THEN ReturnPc(t) ELSE IF u \in mu.rwait THEN AfterRLock(pc[u]) ELSE pc[u]]
    /\ arg' = [arg EXCEPT ![t] = NoArg]

\* c.mu.Lock() while readers hold the mutex: the writer announces itself,
\* which blocks the calls of RLock that follow, and waits for the readers
Lock_Wait(t) ==
    /\ pc[t] \in {"SetItem_Lock", "Delete_Lock", "Clear_Lock", "ClearExpired_Lock"}
    /\ ~mu.writer /\ mu.readers > 0 /\ mu.pending = {}
    /\ mu' = [mu EXCEPT !.pending = {t}]
    /\ UNCHANGED <<clock, items, pc, arg, todo, seen, ret, lin, tickVars>>

\* c.mu.RLock() while a writer holds the mutex or waits for it: the reader
\* blocks until that writer's Unlock
RLock_Wait(t) ==
    /\ pc[t] \in {"GetItem_RLock", "Items_RLock", "Len_RLock"}
    /\ ~CanRLock
    /\ t \notin mu.rwait
    /\ mu' = [mu EXCEPT !.rwait = @ \cup {t}]
    /\ UNCHANGED <<clock, items, pc, arg, todo, seen, ret, lin, tickVars>>

\* c.mu.RLock()
RLock(t, from, to) ==
    /\ pc[t] = from
    /\ CanRLock
    /\ mu' = [mu EXCEPT !.readers = @ + 1]
    /\ pc' = [pc EXCEPT ![t] = to]
    /\ UNCHANGED <<clock, items, arg, todo, seen, ret, lin, tickVars>>

\* the deferred c.mu.RUnlock(), and the return to the caller
RUnlock(t, from) ==
    /\ pc[t] = from
    /\ mu' = [mu EXCEPT !.readers = IF @ > 0 THEN @ - 1 ELSE 0]
    /\ pc' = [pc EXCEPT ![t] = "idle"]
    /\ arg' = [arg EXCEPT ![t] = NoArg]
    /\ ret' = [ret EXCEPT ![t] = NoRet]
    /\ UNCHANGED <<clock, items, todo, seen, lin, tickVars>>

----------------------------------------------------------------------------
(* Cache.SetItem, Cache.Set, Cache.SetToExpire *)

SetItem(t, key, item) ==
    Enter(t, Call("SetItem", key, item.Value, 0, ZeroTime, item), "SetItem_Lock")

SetLocked(t, key, value) ==
    /\ pc[t] = "idle"
    /\ CanLock
    /\ mu' = [mu EXCEPT !.writer = TRUE]
    /\ arg' = [arg EXCEPT ![t] = Call("Set", key, value, 0, clock, NewItem(value, clock))]
    /\ pc' = [pc EXCEPT ![t] = "SetItem_Lock"]
    /\ UNCHANGED <<clock, items, todo, seen, ret, lin, tickVars>>

\* Set reads the clock, builds the item and calls SetItem
Set(t, key, value) ==
    Enter(t, Call("Set", key, value, 0, clock, NewItem(value, clock)), "SetItem_Lock")

\* SetToExpire reads the clock once, builds the item and calls SetItem
SetToExpire(t, key, value, lifetime) ==
    Enter(t, Call("SetToExpire", key, value, lifetime, clock, NewExpiringItem(value, clock, lifetime)), "SetItem_Lock")

SetItem_Lock(t) ==
    /\ Lock(t, "SetItem_Lock", "SetItem_store")
    /\ UNCHANGED <<clock, items, arg, todo, seen, ret, lin, tickVars>>

SetItem_Store(t) ==
    /\ pc[t] = "SetItem_store"
    /\ items' \in WriteOutcomes(t, MapStore(items, arg[t].key, arg[t].item))
    /\ pc' = [pc EXCEPT ![t] = "SetItem_Unlock"]
    /\ UNCHANGED <<clock, mu, arg, todo, seen, ret, lin, tickVars>>

SetItem_Unlock(t) ==
    /\ Unlock(t, "SetItem_Unlock")
    /\ lin' = MapStore(lin, arg[t].key, arg[t].item)
    /\ UNCHANGED <<clock, items, todo, seen, ret, tickVars>>

----------------------------------------------------------------------------
(* Cache.GetItem, Cache.Get *)

GetItem(t, key) ==
    Enter(t, [op |-> "GetItem", key |-> key], "GetItem_RLock")

\* Get calls GetItem and returns item.Value and ok
Get(t, key) ==
    Enter(t, [op |-> "Get", key |-> key], "GetItem_RLock")

GetItem_RLock(t) == RLock(t, "GetItem_RLock", "GetItem_load")

GetItem_Load(t) ==
    /\ pc[t] = "GetItem_load"
    /\ ret' = [ret EXCEPT ![t] = [item |-> Lookup(items, arg[t].key).item, ok |-> Lookup(items, arg[t].key).ok]]
    /\ pc' = [pc EXCEPT ![t] = "GetItem_RUnlock"]
    /\ UNCHANGED <<clock, items, mu, arg, todo, seen, lin, tickVars>>

GetItem_RUnlock(t) == RUnlock(t, "GetItem_RUnlock")

----------------------------------------------------------------------------
(* Cache.Delete *)

Delete(t, key) ==
    Enter(t, [op |-> "Delete", key |-> key], "Delete_Lock")

Delete_Lock(t) ==
    /\ Lock(t, "Delete_Lock", "Delete_delete")
    /\ UNCHANGED <<clock, items, arg, todo, seen, ret, lin, tickVars>>

Delete_Delete(t) ==
    /\ pc[t] = "Delete_delete"
    /\ items' \in WriteOutcomes(t, MapDelete(items, arg[t].key))
    /\ pc' = [pc EXCEPT ![t] = "Delete_Unlock"]
    /\ UNCHANGED <<clock, mu, arg, todo, seen, ret, lin, tickVars>>

Delete_Unlock(t) ==
    /\ Unlock(t, "Delete_Unlock")
    /\ lin' = MapDelete(lin, arg[t].key)
    /\ UNCHANGED <<clock, items, todo, seen, ret, tickVars>>

----------------------------------------------------------------------------
(* Cache.Clear *)

Clear(t) ==
    Enter(t, [op |-> "Clear"], "Clear_Lock")

Clear_Lock(t) ==
    /\ Lock(t, "Clear_Lock", "Clear_make")
    /\ UNCHANGED <<clock, items, arg, todo, seen, ret, lin, tickVars>>

Clear_MakeExpiredOnly(t) ==
    /\ pc[t] = "Clear_make"
    /\ items' = [k \in {x \in DOMAIN items : ~IsExpired(items[x], clock)} |-> items[k]]
    /\ pc' = [pc EXCEPT ![t] = "Clear_Unlock"]
    /\ UNCHANGED <<clock, mu, arg, todo, seen, ret, lin, tickVars>>

\* c.items = make(map[K]Item[V])
Clear_Make(t) ==
    /\ pc[t] = "Clear_make"
    /\ items' \in WriteOutcomes(t, EmptyMap)
    /\ pc' = [pc EXCEPT ![t] = "Clear_Unlock"]
    /\ UNCHANGED <<clock, mu, arg, todo, seen, ret, lin, tickVars>>

Clear_Unlock(t) ==
    /\ Unlock(t, "Clear_Unlock")
    /\ lin' = EmptyMap
    /\ UNCHANGED <<clock, items, todo, seen, ret, tickVars>>

----------------------------------------------------------------------------
(* Cache.ClearExpired *)

ClearExpired(t) ==
    Enter(t, [op |-> "ClearExpired"], "ClearExpired_Lock")

\* Lock, and the start of the range loop over c.items
ClearExpired_Lock(t) ==
    /\ Lock(t, "ClearExpired_Lock", "ClearExpired_range")
    /\ todo' = [todo EXCEPT ![t] = DOMAIN items]
    /\ UNCHANGED <<clock, items, arg, seen, ret, lin, tickVars>>

\* the keys the scan of ClearExpired removes from map m, given the clock values
\* IsExpired read (s[k] for key k)
Swept(m, s) == [k \in {x \in DOMAIN m : ~(x \in DOMAIN s /\ IsExpired(m[x], s[x]))} |-> m[k]]

\* One iteration of the range loop: the order is unspecified, a key deleted
\* before it is reached is not produced, and IsExpired reads the clock anew.
ClearExpired_Range(t) ==
    /\ pc[t] = "ClearExpired_range"
    /\ \E key \in todo[t] :
        /\ todo' = [todo EXCEPT ![t] = @ \ {key}]
        /\ IF key \in DOMAIN items
           THEN /\ seen' = [seen EXCEPT ![t] = [k \in (DOMAIN @) \cup {key} |-> IF k = key THEN clock ELSE @[k]]]
                /\ IF IsExpired(items[key], clock)
                   THEN items' \in WriteOutcomes(t, MapDelete(items, key))
                   ELSE items' = items
           ELSE UNCHANGED <<seen, items>>
    /\ UNCHANGED <<clock, mu, pc, arg, ret, lin, tickVars>>

\* the range loop is over
ClearExpired_Unlock(t) ==
    /\ todo[t] = {}
    /\ Unlock(t, "ClearExpired_range")
    /\ lin' = Swept(lin, seen[t])
    /\ seen' = [seen EXCEPT ![t] = NoSeen]
    /\ UNCHANGED <<clock, items, todo, ret, tickVars>>

----------------------------------------------------------------------------
(* Cache.Items, Cache.Len *)

Items(t) ==
    Enter(t, [op |-> "Items"], "Items_RLock")

Items_RLock(t) == RLock(t, "Items_RLock", "Items_copy")

\* make, and the range loop that copies every entry
Items_Copy(t) ==
    /\ pc[t] = "Items_copy"
    /\ ret' = [ret EXCEPT ![t] = [items |-> [k \in DOMAIN items |-> items[k]]]]
    /\ pc' = [pc EXCEPT ![t] = "Items_RUnlock"]
    /\ UNCHANGED <<clock, items, mu, arg, todo, seen, lin, tickVars>>

Items_RUnlock(t) == RUnlock(t, "Items_RUnlock")

Len(t) ==
    Enter(t, [op |-> "Len"], "Len_RLock")

Len_RLock(t) == RLock(t, "Len_RLock", "Len_len")

Len_Len(t) ==
    /\ pc[t] = "Len_len"
    /\ ret' = [ret EXCEPT ![t] = [len |-> MapLen(items)]]
    /\ pc' = [pc EXCEPT ![t] = "Len_RUnlock"]
    /\ UNCHANGED <<clock, items, mu, arg, todo, seen, lin, tickVars>>

Len_RUnlock(t) == RUnlock(t, "Len_RUnlock")

----------------------------------------------------------------------------
(* The clock *)

\* time passes
Tick ==
    /\ clock < MaxClock
    /\ clock' = clock + 1
    /\ UNCHANGED <<items, mu, pc, arg, todo, seen, ret, lin, tickVars>>

----------------------------------------------------------------------------
(* NewCache, and concurrent callers of every method *)

Init ==
    /\ clock = ClockStart
    /\ items = EmptyMap
    /\ mu = Unlocked
    /\ pc = [t \in Procs |-> "idle"]
    /\ arg = [t \in Procs |-> NoArg]
    /\ todo = [t \in Procs |-> {}]
    /\ seen = [t \in Procs |-> NoSeen]
    /\ ret = [t \in Procs |-> NoRet]
    /\ lin = EmptyMap
    /\ ticker = NilTicker
    /\ job = NilJob
    /\ timers = [id \in {} |-> [active |-> FALSE, buf |-> 0, closed |-> FALSE]]
    /\ ch = [t \in Procs |-> NilTicker]
    /\ inJob = [t \in Procs |-> NoJob]
    /\ stopped = FALSE
    /\ invoked = NoJob

Next ==
    \/ Tick
    \/ \E t \in Callers, k \in Keys, i \in ItemInputs : SetItem(t, k, i)
    \/ \E t \in Callers, k \in Keys, v \in Values : Set(t, k, v)
    \/ \E t \in Callers, k \in Keys, v \in ExpiringValues, l \in Lifetimes : SetToExpire(t, k, v, l)
    \/ \E t \in Callers : SetItem_Lock(t)
    \/ \E t \in Callers : SetItem_Store(t)
    \/ \E t \in Callers : SetItem_Unlock(t)
    \/ \E t \in Callers, k \in Keys : GetItem(t, k)
    \/ \E t \in Callers, k \in Keys : Get(t, k)
    \/ \E t \in Callers : GetItem_RLock(t)
    \/ \E t \in Callers : GetItem_Load(t)
    \/ \E t \in Callers : GetItem_RUnlock(t)
    \/ \E t \in Callers, k \in Keys : Delete(t, k)
    \/ \E t \in Callers : Delete_Lock(t)
    \/ \E t \in Callers : Delete_Delete(t)
    \/ \E t \in Callers : Delete_Unlock(t)
    \/ \E t \in Callers : Clear(t)
    \/ \E t \in Callers : Clear_Lock(t)
    \/ \E t \in Callers : Clear_Make(t)
    \/ \E t \in Callers : Clear_Unlock(t)
    \/ \E t \in Callers : ClearExpired(t)
    \/ \E t \in Callers : ClearExpired_Lock(t)
    \/ \E t \in Callers : ClearExpired_Range(t)
    \/ \E t \in Callers : ClearExpired_Unlock(t)
    \/ \E t \in Callers : Items(t)
    \/ \E t \in Callers : Items_RLock(t)
    \/ \E t \in Callers : Items_Copy(t)
    \/ \E t \in Callers : Items_RUnlock(t)
    \/ \E t \in Callers : Len(t)
    \/ \E t \in Callers : Len_RLock(t)
    \/ \E t \in Callers : Len_Len(t)
    \/ \E t \in Callers : Len_RUnlock(t)

Spec == Init /\ [][Next]_vars

----------------------------------------------------------------------------
(* N threads that have each called Set, SetItem or SetToExpire with a key of
   their own (thread t writes key t) on an empty Cache: every thread is at
   the Lock of SetItem, and nothing else runs. *)

SetCalls(t) ==
    { Call("Set", t, v, 0, ClockStart, NewItem(v, ClockStart)) : v \in Values }
    \cup { Call("SetToExpire", t, v, MaxLife, ClockStart, NewExpiringItem(v, ClockStart, MaxLife)) : v \in ExpiringValues }
    \cup { Call("SetItem", t, i.Value, 0, ZeroTime, i) : i \in ItemInputs }

InitSet ==
    /\ clock = ClockStart
    /\ items = EmptyMap
    /\ mu = Unlocked
    /\ pc = [t \in Procs |-> IF t \in SetThreads THEN "SetItem_Lock" ELSE "idle"]
    /\ arg \in { a \in [Procs -> UNION { SetCalls(t) : t \in SetThreads } \cup {NoArg}] : \A t \in Procs : IF t \in SetThreads THEN a[t] \in SetCalls(t) ELSE a[t] = NoArg }
    /\ todo = [t \in Procs |-> {}]
    /\ seen = [t \in Procs |-> NoSeen]
    /\ ret = [t \in Procs |-> NoRet]
    /\ lin = EmptyMap
    /\ ticker = NilTicker
    /\ job = NilJob
    /\ timers = [id \in {} |-> [active |-> FALSE, buf |-> 0, closed |-> FALSE]]
    /\ ch = [t \in Procs |-> NilTicker]
    /\ inJob = [t \in Procs |-> NoJob]
    /\ stopped = FALSE
    /\ invoked = NoJob

NextSet ==
    \/ \E t \in SetThreads : SetItem_Lock(t)
    \/ \E t \in SetThreads : SetItem_Store(t)
    \/ \E t \in SetThreads : SetItem_Unlock(t)

SpecSet == InitSet /\ [][NextSet]_vars

----------------------------------------------------------------------------
(* A caller that keeps the map Items returned and changes it, while another
   thread changes the store. *)

\* the thread that keeps the returned map, and the thread that writes the store
Holders == {1}
StoreWriters == {2}

CopySharesStore == TRUE

\* whether the map Items returns is the map of the store: Items makes a new
\* map and copies every entry into it
CopyShares == FALSE

\* the deferred c.mu.RUnlock(), and the return of the copy to a caller that
\* keeps it
Items_Return(t) ==
    /\ pc[t] = "Items_RUnlock"
    /\ mu' = [mu EXCEPT !.readers = IF @ > 0 THEN @ - 1 ELSE 0]
    /\ pc' = [pc EXCEPT ![t] = "Items_held"]
    /\ arg' = [arg EXCEPT ![t] = NoArg]
    /\ UNCHANGED <<clock, items, todo, seen, ret, lin, tickVars>>

\* the caller adds or overwrites a key of the map it was returned
Held_Store(t, key, item) ==
    /\ pc[t] = "Items_held"
    /\ ret' = [ret EXCEPT ![t] = [items |-> MapStore(@.items, key, item)]]
    /\ items' = IF CopyShares THEN MapStore(items, key, item) ELSE items
    /\ UNCHANGED <<clock, mu, pc, arg, todo, seen, lin, tickVars>>

\* the caller deletes a key of the map it was returned
Held_Delete(t, key) ==
    /\ pc[t] = "Items_held"
    /\ key \in DOMAIN ret[t].items
    /\ ret' = [ret EXCEPT ![t] = [items |-> MapDelete(@.items, key)]]
    /\ items' = IF CopyShares THEN MapDelete(items, key) ELSE items
    /\ UNCHANGED <<clock, mu, pc, arg, todo, seen, lin, tickVars>>

\* the caller drops the map it was returned
Held_Drop(t) ==
    /\ pc[t] = "Items_held"
    /\ pc' = [pc EXCEPT ![t] = "idle"]
    /\ ret' = [ret EXCEPT ![t] = NoRet]
    /\ UNCHANGED <<clock, items, mu, arg, todo, seen, lin, tickVars>>

NextItems ==
    \/ Tick
    \/ \E t \in Holders : Items(t)
    \/ \E t \in Holders : Items_RLock(t)
    \/ \E t \in Holders : Items_Copy(t)
    \/ \E t \in Holders : Items_Return(t)
    \/ \E t \in Holders, k \in Keys, i \in ItemInputs : Held_Store(t, k, i)
    \/ \E t \in Holders, k \in Keys : Held_Delete(t, k)
    \/ \E t \in Holders : Held_Drop(t)
    \/ \E t \in StoreWriters, k \in Keys, v \in Values : Set(t, k, v)
    \/ \E t \in StoreWriters, k \in Keys, v \in ExpiringValues, l \in Lifetimes : SetToExpire(t, k, v, l)
    \/ \E t \in StoreWriters : SetItem_Lock(t)
    \/ \E t \in StoreWriters : SetItem_Store(t)
    \/ \E t \in StoreWriters : SetItem_Unlock(t)
    \/ \E t \in StoreWriters, k \in Keys : Delete(t, k)
    \/ \E t \in StoreWriters : Delete_Lock(t)
    \/ \E t \in StoreWriters : Delete_Delete(t)
    \/ \E t \in StoreWriters : Delete_Unlock(t)

SpecItems == Init /\ [][NextItems]_vars

----------------------------------------------------------------------------
(* time.Ticker *)

\* time.NewTicker(d): a running ticker with an empty channel of capacity 1
NewTicker == [active |-> TRUE, buf |-> 0, closed |-> FALSE]

NextTimerReuse == IF ticker # NilTicker THEN ticker ELSE 1

\* the id the next ticker gets
NextTimer == Cardinality(DOMAIN timers) + 1

\* The runtime sends a tick on the channel of a running ticker; a tick that
\* finds the channel full is dropped.
TimerFire(id) ==
    /\ id \in DOMAIN timers
    /\ timers[id].active
    /\ timers[id].buf = 0
    /\ timers' = [timers EXCEPT ![id] = [active |-> TRUE, buf |-> 1, closed |-> @.closed]]
    /\ UNCHANGED <<clock, items, mu, pc, arg, todo, seen, ret, lin, ticker, job, ch, inJob, stopped, invoked>>

----------------------------------------------------------------------------
(* TickingCache.Start *)

\* tc.ticker = time.NewTicker(d)
Start_NewTicker(t) ==
    /\ pc[t] = "Start_NewTicker"
    /\ timers' = [id \in (DOMAIN timers) \cup {NextTimer} |-> IF id = NextTimer THEN NewTicker ELSE timers[id]]
    /\ ticker' = NextTimer
    /\ pc' = [pc EXCEPT ![t] = "Start_range"]
    /\ UNCHANGED <<clock, items, mu, arg, todo, seen, ret, lin, job, ch, inJob, stopped, invoked>>

\* for range tc.ticker.C: the range expression is evaluated once
Start_Range(t) ==
    /\ pc[t] = "Start_range"
    /\ ch' = [ch EXCEPT ![t] = ticker]
    /\ pc' = [pc EXCEPT ![t] = "Start_recv"]
    /\ UNCHANGED <<clock, items, mu, arg, todo, seen, ret, lin, ticker, job, timers, inJob, stopped, invoked>>

\* the loop blocks until it receives a tick from the channel; a range over a
\* channel ends only when the channel is closed and empty
Start_Recv(t) ==
    /\ pc[t] = "Start_recv"
    /\ ch[t] \in DOMAIN timers
    /\ IF timers[ch[t]].buf = 1
       THEN /\ timers' = [timers EXCEPT ![ch[t]] = [active |-> @.active, buf |-> 0, closed |-> @.closed]]
            /\ pc' = [pc EXCEPT ![t] = "Start_job"]
       ELSE /\ timers[ch[t]].closed
            /\ pc' = [pc EXCEPT ![t] = "Start_return"]
            /\ UNCHANGED timers
    /\ UNCHANGED <<clock, items, mu, arg, todo, seen, ret, lin, ticker, job, ch, inJob, stopped, invoked>>

AfterNilJobReturn == "Start_return"

\* where the loop goes on when tc.Job is nil: to the next receive
AfterNilJob == "Start_recv"

\* the first position of the function j assigned to Job
JobEntry(j) == IF j = "sweep" THEN "ClearExpired_Lock" ELSE "Job_body"

\* if tc.Job != nil: Job is read anew at every tick
Start_Job(t) ==
    /\ pc[t] = "Start_job"
    /\ pc' = [pc EXCEPT ![t] = IF job # NilJob THEN "Start_call" ELSE AfterNilJob]
    /\ UNCHANGED <<clock, items, mu, arg, todo, seen, ret, lin, tickVars>>

Start_CallLocked(t) ==
    /\ pc[t] = "Start_call"
    /\ job # NilJob
    /\ CanLock
    /\ mu' = [mu EXCEPT !.writer = TRUE]
    /\ inJob' = [inJob EXCEPT ![t] = job]
    /\ invoked' = job
    /\ pc' = [pc EXCEPT ![t] = JobEntry(job)]
    /\ UNCHANGED <<clock, items, arg, todo, seen, ret, lin, ticker, job, timers, ch, stopped>>

\* tc.Job(): Job is read a second time for the call; the call of a nil func
\* panics, and the program ends
Start_Call(t) ==
    /\ pc[t] = "Start_call"
    /\ IF job # NilJob
       THEN /\ inJob' = [inJob EXCEPT ![t] = job]
            /\ invoked' = job
            /\ pc' = [pc EXCEPT ![t] = JobEntry(job)]
            /\ arg' = [arg EXCEPT ![t] = IF job = "sweep" THEN [op |-> "ClearExpired"] ELSE NoArg]
       ELSE /\ pc' = [pc EXCEPT ![t] = "panic"]
            /\ UNCHANGED <<inJob, invoked, arg>>
    /\ UNCHANGED <<clock, items, mu, todo, seen, ret, lin, ticker, job, timers, ch, stopped>>

\* the program has ended in a panic
Crashed == \E t \in Procs : pc[t] = "panic"

\* the body of a Job that does not touch the cache
Job_Body(t) ==
    /\ pc[t] = "Job_body"
    /\ pc' = [pc EXCEPT ![t] = "Job_return"]
    /\ UNCHANGED <<clock, items, mu, arg, todo, seen, ret, lin, tickVars>>

\* tc.Job() returns, and the loop waits for the next tick
Job_Return(t) ==
    /\ pc[t] = "Job_return"
    /\ inJob' = [inJob EXCEPT ![t] = NoJob]
    /\ pc' = [pc EXCEPT ![t] = "Start_recv"]
    /\ UNCHANGED <<clock, items, mu, arg, todo, seen, ret, lin, ticker, job, timers, ch, stopped, invoked>>

----------------------------------------------------------------------------
(* TickingCache.Stop, and the assignment of TickingCache.Job *)

Stop(t) ==
    Enter(t, [op |-> "Stop"], "Stop_check")

\* if tc.ticker != nil
Stop_Check(t) ==
    /\ pc[t] = "Stop_check"
    /\ IF ticker # NilTicker
       THEN /\ pc' = [pc EXCEPT ![t] = "Stop_stop"]
            /\ UNCHANGED <<arg, stopped>>
       ELSE /\ pc' = [pc EXCEPT ![t] = "idle"]
            /\ arg' = [arg EXCEPT ![t] = NoArg]
            /\ stopped' = TRUE
    /\ UNCHANGED <<clock, items, mu, todo, seen, ret, lin, ticker, job, timers, ch, inJob, invoked>>

Stop_StopDrains(t) ==
    /\ pc[t] = "Stop_stop"
    /\ \E drain \in BOOLEAN :
        timers' = [timers EXCEPT ![ticker] = [active |-> FALSE, buf |-> IF drain THEN 0 ELSE @.buf, closed |-> @.closed]]
    /\ pc' = [pc EXCEPT ![t] = "idle"]
    /\ arg' = [arg EXCEPT ![t] = NoArg]
    /\ stopped' = TRUE
    /\ UNCHANGED <<clock, items, mu, todo, seen, ret, lin, ticker, job, ch, inJob, invoked>>

Stop_StopCloses(t) ==
    /\ pc[t] = "Stop_stop"
    /\ \E drain \in BOOLEAN :
        timers' = [timers EXCEPT ![ticker] = [active |-> FALSE, buf |-> IF drain /\ @.active THEN 0 ELSE @.buf, closed |-> TRUE]]
    /\ pc' = [pc EXCEPT ![t] = "idle"]
    /\ arg' = [arg EXCEPT ![t] = NoArg]
    /\ stopped' = TRUE
    /\ UNCHANGED <<clock, items, mu, todo, seen, ret, lin, ticker, job, ch, inJob, invoked>>

\* tc.ticker.Stop(): no more ticks are sent. The channel is not closed; a
\* tick already in it stays there or is discarded, depending on the Go
\* version the module is built for. Stop on a ticker that is stopped already
\* does nothing.
Stop_Stop(t) ==
    /\ pc[t] = "Stop_stop"
    /\ \E drain \in BOOLEAN :
        timers' = [timers EXCEPT ![ticker] = [active |-> FALSE, buf |-> IF drain /\ @.active THEN 0 ELSE @.buf, closed |-> @.closed]]
    /\ pc' = [pc EXCEPT ![t] = "idle"]
    /\ arg' = [arg EXCEPT ![t] = NoArg]
    /\ stopped' = TRUE
    /\ UNCHANGED <<clock, items, mu, todo, seen, ret, lin, ticker, job, ch, inJob, invoked>>

\* cache.Job = j, by a caller between two calls
AssignJob(t, j) ==
    /\ pc[t] = "idle"
    /\ job # j
    /\ job' = j
    /\ invoked' = NoJob
    /\ UNCHANGED <<clock, items, mu, pc, arg, todo, seen, ret, lin, ticker, timers, ch, inJob, stopped>>

----------------------------------------------------------------------------
(* NewTickingCache: an empty Cache, and a goroutine about to run Start. The
   caller assigns Job, stores entries that expire within the time the model
   covers, reads Len and calls Stop. *)

\* the lifetimes the caller of a TickingCache passes to SetToExpire
TickLifetimes == 0..MaxLife

InitTick ==
    /\ clock = ClockStart
    /\ items = EmptyMap
    /\ mu = Unlocked
    /\ pc = [t \in Procs |-> IF t \in Goroutines THEN "Start_NewTicker" ELSE "idle"]
    /\ arg = [t \in Procs |-> NoArg]
    /\ todo = [t \in Procs |-> {}]
    /\ seen = [t \in Procs |-> NoSeen]
    /\ ret = [t \in Procs |-> NoRet]
    /\ lin = EmptyMap
    /\ ticker = NilTicker
    /\ job = NilJob
    /\ timers = [id \in {} |-> NewTicker]
    /\ ch = [t \in Procs |-> NilTicker]
    /\ inJob = [t \in Procs |-> NoJob]
    /\ stopped = FALSE
    /\ invoked = NoJob

NextTick ==
    \/ Tick
    \/ \E id \in DOMAIN timers : TimerFire(id)
    \/ \E t \in Goroutines : Start_NewTicker(t)
    \/ \E t \in Goroutines : Start_Range(t)
    \/ \E t \in Goroutines : Start_Recv(t)
    \/ \E t \in Goroutines : Start_Job(t)
    \/ \E t \in Goroutines : Start_Call(t)
    \/ \E t \in Goroutines : Job_Body(t)
    \/ \E t \in Goroutines : Job_Return(t)
    \/ \E t \in Goroutines : ClearExpired_Lock(t)
    \/ \E t \in Goroutines : ClearExpired_Range(t)
    \/ \E t \in Goroutines : ClearExpired_Unlock(t)
    \/ \E t \in TickCallers, j \in Jobs \cup {NilJob} : ~Crashed /\ AssignJob(t, j)
    \/ \E t \in TickCallers, k \in Keys, v \in ExpiringValues, l \in TickLifetimes : ~Crashed /\ clock + l < MaxClock /\ SetToExpire(t, k, v, l)
    \/ \E t \in TickCallers : SetItem_Lock(t)
    \/ \E t \in TickCallers : SetItem_Store(t)
    \/ \E t \in TickCallers : SetItem_Unlock(t)
    \/ \E t \in TickCallers : ~Crashed /\ Len(t)
    \/ \E t \in TickCallers : Len_RLock(t)
    \/ \E t \in TickCallers : Len_Len(t)
    \/ \E t \in TickCallers : Len_RUnlock(t)
    \/ \E t \in TickCallers : ~Crashed /\ Stop(t)
    \/ \E t \in TickCallers : Stop_Check(t)
    \/ \E t \in TickCallers : Stop_Stop(t)

SpecTick == InitTick /\ [][NextTick]_vars

\* The steps of thread t that wait for no lock: the Go scheduler runs a
\* runnable goroutine, a tick in the channel is received, and a thread inside
\* a critical section leaves it.
Runs(t) ==
    \/ Start_NewTicker(t) \/ Start_Range(t) \/ Start_Recv(t) \/ Start_Job(t) \/ Start_Call(t)
    \/ Job_Body(t) \/ Job_Return(t)
    \/ ClearExpired_Range(t) \/ ClearExpired_Unlock(t)
    \/ SetItem_Store(t) \/ SetItem_Unlock(t) \/ Len_Len(t) \/ Len_RUnlock(t)

\* Time passes, a running ticker keeps ticking, and the mutex does not
\* starve the goroutine's Lock (sync.RWMutex blocks new readers once a
\* writer waits).
FairTick ==
    /\ WF_vars(Tick)
    /\ WF_vars(\E id \in DOMAIN timers : TimerFire(id))
    /\ \A t \in Goroutines \cup TickCallers : WF_vars(Runs(t))
    /\ \A t \in Goroutines : SF_vars(ClearExpired_Lock(t))

SpecTickFair == InitTick /\ [][NextTick]_vars /\ FairTick

----------------------------------------------------------------------------
(* A TickingCache whose caller, besides assigning Job and calling Stop, calls
   the exported Start: in a goroutine of its own, since Start does not
   return. Every Job runs on a store without entries. *)

\* go tc.Start(d), by the caller
GoStart(t, g) ==
    /\ pc[t] = "idle"
    /\ pc[g] = "unborn"
    /\ pc' = [pc EXCEPT ![g] = "Start_NewTicker"]
    /\ UNCHANGED <<clock, items, mu, arg, todo, seen, ret, lin, tickVars>>

InitStart ==
    /\ clock = ClockStart
    /\ items = EmptyMap
    /\ mu = Unlocked
    /\ pc = [t \in Procs |-> IF t \in Goroutines THEN "Start_NewTicker" ELSE IF t \in Starters THEN "unborn" ELSE "idle"]
    /\ arg = [t \in Procs |-> NoArg]
    /\ todo = [t \in Procs |-> {}]
    /\ seen = [t \in Procs |-> NoSeen]
    /\ ret = [t \in Procs |-> NoRet]
    /\ lin = EmptyMap
    /\ ticker = NilTicker
    /\ job = NilJob
    /\ timers = [id \in {} |-> NewTicker]
    /\ ch = [t \in Procs |-> NilTicker]
    /\ inJob = [t \in Procs |-> NoJob]
    /\ stopped = FALSE
    /\ invoked = NoJob

NextStart ==
    \/ \E id \in DOMAIN timers : TimerFire(id)
    \/ \E t \in Loops : Start_NewTicker(t)
    \/ \E t \in Loops : Start_Range(t)
    \/ \E t \in Loops : Start_Recv(t)
    \/ \E t \in Loops : Start_Job(t)
    \/ \E t \in Loops : Start_Call(t)
    \/ \E t \in Loops : Job_Body(t)
    \/ \E t \in Loops : Job_Return(t)
    \/ \E t \in Loops : ClearExpired_Lock(t)
    \/ \E t \in Loops : ClearExpired_Unlock(t)
    \/ \E t \in TickCallers, j \in Jobs \cup {NilJob} : ~Crashed /\ AssignJob(t, j)
    \/ \E t \in TickCallers, g \in Starters : ~Crashed /\ GoStart(t, g)
    \/ \E t \in TickCallers : ~Crashed /\ Stop(t)
    \/ \E t \in TickCallers : Stop_Check(t)
    \/ \E t \in TickCallers : Stop_Stop(t)

SpecStart == InitStart /\ [][NextStart]_vars

\* Every running ticker keeps ticking (each Start creates one ticker), every
\* tick loop runs, and the mutex does
\* not starve the Lock of a Job.
FairStart ==
    /\ \A id \in 1..Cardinality(Loops) : WF_vars(TimerFire(id))
    /\ \A t \in Loops : WF_vars(Runs(t))
    /\ \A t \in Loops : SF_vars(ClearExpired_Lock(t))

SpecStartFair == InitStart /\ [][NextStart]_vars /\ FairStart

----------------------------------------------------------------------------
(* A TickingCache whose Job is a function that does not touch the cache and
   never returns, while the callers use every method of the Cache. *)

InitHang ==
    /\ clock = ClockStart
    /\ items = EmptyMap
    /\ mu = Unlocked
    /\ pc = [t \in Procs |-> IF t \in Goroutines THEN "Start_NewTicker" ELSE "idle"]
    /\ arg = [t \in Procs |-> NoArg]
    /\ todo = [t \in Procs |-> {}]
    /\ seen = [t \in Procs |-> NoSeen]
    /\ ret = [t \in Procs |-> NoRet]
    /\ lin = EmptyMap
    /\ ticker = NilTicker
    /\ job = "other"
    /\ timers = [id \in {} |-> NewTicker]
    /\ ch = [t \in Procs |-> NilTicker]
    /\ inJob = [t \in Procs |-> NoJob]
    /\ stopped = FALSE
    /\ invoked = NoJob

\* the body of Job takes no step: the invocation never returns
NextHang ==
    \/ \E id \in DOMAIN timers : TimerFire(id)
    \/ \E t \in Goroutines : Start_NewTicker(t)
    \/ \E t \in Goroutines : Start_Range(t)
    \/ \E t \in Goroutines : Start_Recv(t)
    \/ \E t \in Goroutines : Start_Job(t)
    \/ \E t \in Goroutines : Start_Call(t)
    \/ \E t \in Callers, k \in Keys, v \in Values : Set(t, k, v)
    \/ \E t \in Callers, k \in Keys, v \in ExpiringValues : SetToExpire(t, k, v, 0 - MaxLife)
    \/ \E t \in Callers : SetItem_Lock(t)
    \/ \E t \in Callers : SetItem_Store(t)
    \/ \E t \in Callers : SetItem_Unlock(t)
    \/ \E t \in Callers, k \in Keys : Get(t, k)
    \/ \E t \in Callers : GetItem_RLock(t)
    \/ \E t \in Callers : GetItem_Load(t)
    \/ \E t \in Callers : GetItem_RUnlock(t)
    \/ \E t \in Callers, k \in Keys : Delete(t, k)
    \/ \E t \in Callers : Delete_Lock(t)
    \/ \E t \in Callers : Delete_Delete(t)
    \/ \E t \in Callers : Delete_Unlock(t)
    \/ \E t \in Callers : Clear(t)
    \/ \E t \in Callers : Clear_Lock(t)
    \/ \E t \in Callers : Clear_Make(t)
    \/ \E t \in Callers : Clear_Unlock(t)
    \/ \E t \in Callers : ClearExpired(t)
    \/ \E t \in Callers : ClearExpired_Lock(t)
    \/ \E t \in Callers : ClearExpired_Range(t)
    \/ \E t \in Callers : ClearExpired_Unlock(t)
    \/ \E t \in Callers : Items(t)
    \/ \E t \in Callers : Items_RLock(t)
    \/ \E t \in Callers : Items_Copy(t)
    \/ \E t \in Callers : Items_RUnlock(t)
    \/ \E t \in Callers : Len(t)
    \/ \E t \in Callers : Len_RLock(t)
    \/ \E t \in Callers : Len_Len(t)
    \/ \E t \in Callers : Len_RUnlock(t)

SpecHang == InitHang /\ [][NextHang]_vars

\* the steps of a Cache method that thread t takes inside its critical section
InCs(t) ==
    \/ SetItem_Store(t) \/ SetItem_Unlock(t)
    \/ GetItem_Load(t) \/ GetItem_RUnlock(t)
    \/ Delete_Delete(t) \/ Delete_Unlock(t)
    \/ Clear_Make(t) \/ Clear_Unlock(t)
    \/ ClearExpired_Range(t) \/ ClearExpired_Unlock(t)
    \/ Items_Copy(t) \/ Items_RUnlock(t)
    \/ Len_Len(t) \/ Len_RUnlock(t)

\* the steps in which thread t acquires the mutex
Acquires(t) ==
    \/ SetItem_Lock(t) \/ Delete_Lock(t) \/ Clear_Lock(t) \/ ClearExpired_Lock(t)
    \/ GetItem_RLock(t) \/ Items_RLock(t) \/ Len_RLock(t)

\* A thread inside a critical section leaves it, and the mutex lets no
\* waiting thread starve; the ticker keeps ticking and the tick loop runs.
FairHang ==
    /\ WF_vars(\E id \in DOMAIN timers : TimerFire(id))
    /\ \A t \in Goroutines : WF_vars(Runs(t))
    /\ \A t \in Callers : WF_vars(InCs(t))
    /\ \A t \in Callers : SF_vars(Acquires(t))

SpecHangFair == InitHang /\ [][NextHang]_vars /\ FairHang

----------------------------------------------------------------------------
(* A TickingCache whose Job is ClearExpired, as NewTickingCache's caller sets
   it, while the callers use every method of the Cache. The clock stands
   still: what SetToExpire stores has expired already, what Set stores never
   expires. *)

InitSweep ==
    /\ clock = ClockStart
    /\ items = EmptyMap
    /\ mu = Unlocked
    /\ pc = [t \in Procs |-> IF t \in Goroutines THEN "Start_NewTicker" ELSE "idle"]
    /\ arg = [t \in Procs |-> NoArg]
    /\ todo = [t \in Procs |-> {}]
    /\ seen = [t \in Procs |-> NoSeen]
    /\ ret = [t \in Procs |-> NoRet]
    /\ lin = EmptyMap
    /\ ticker = NilTicker
    /\ job = "sweep"
    /\ timers = [id \in {} |-> NewTicker]
    /\ ch = [t \in Procs |-> NilTicker]
    /\ inJob = [t \in Procs |-> NoJob]
    /\ stopped = FALSE
    /\ invoked = NoJob

\* the keys the callers store without expiration, and read
PermanentKeys == {1}

NextSweep ==
    \/ \E id \in DOMAIN timers : TimerFire(id)
    \/ \E t \in Goroutines : Start_NewTicker(t)
    \/ \E t \in Goroutines : Start_Range(t)
    \/ \E t \in Goroutines : Start_Recv(t)
    \/ \E t \in Goroutines : Start_Job(t)
    \/ \E t \in Goroutines : Start_Call(t)
    \/ \E t \in Goroutines : Job_Return(t)
    \/ \E t \in Callers, k \in PermanentKeys, v \in Values : Set(t, k, v)
    \/ \E t \in Callers, k \in Keys, v \in ExpiringValues : SetToExpire(t, k, v, 0 - MaxLife)
    \/ \E t \in Callers : SetItem_Lock(t)
    \/ \E t \in Callers : SetItem_Store(t)
    \/ \E t \in Callers : SetItem_Unlock(t)
    \/ \E t \in Callers, k \in PermanentKeys : Get(t, k)
    \/ \E t \in Callers : GetItem_RLock(t)
    \/ \E t \in Callers : GetItem_Load(t)
    \/ \E t \in Callers : GetItem_RUnlock(t)
    \/ \E t \in Callers, k \in Keys : Delete(t, k)
    \/ \E t \in Callers : Delete_Lock(t)
    \/ \E t \in Callers : Delete_Delete(t)
    \/ \E t \in Callers : Delete_Unlock(t)
    \/ \E t \in Callers : Clear(t)
    \/ \E t \in Callers : Clear_Lock(t)
    \/ \E t \in Callers : Clear_Make(t)
    \/ \E t \in Callers : Clear_Unlock(t)
    \/ \E t \in Callers \cup Goroutines : ClearExpired_Lock(t)
    \/ \E t \in Callers \cup Goroutines : ClearExpired_Range(t)
    \/ \E t \in Callers \cup Goroutines : ClearExpired_Unlock(t)
    \/ \E t \in Callers : ClearExpired(t)
    \/ \E t \in Callers : Items(t)
    \/ \E t \in Callers : Items_RLock(t)
    \/ \E t \in Callers : Items_Copy(t)
    \/ \E t \in Callers : Items_RUnlock(t)
    \/ \E t \in Callers : Len(t)
    \/ \E t \in Callers : Len_RLock(t)
    \/ \E t \in Callers : Len_Len(t)
    \/ \E t \in Callers : Len_RUnlock(t)
    \/ \E t \in Callers \cup Goroutines : Lock_Wait(t)
    \/ \E t \in Callers : RLock_Wait(t)

SpecSweep == InitSweep /\ [][NextSweep]_vars

\* the steps thread t takes inside a call of Lock or RLock
InLock(t) == Acquires(t) \/ Lock_Wait(t) \/ RLock_Wait(t)

\* The ticker keeps ticking and the tick loop runs; a thread inside a
\* critical section leaves it; and the mutex is fair: of the threads that
\* call Lock and RLock, none is passed over for ever.
FairSweep ==
    /\ WF_vars(\E id \in DOMAIN timers : TimerFire(id))
    /\ \A t \in Goroutines : WF_vars(Runs(t))
    /\ \A t \in Callers : WF_vars(InCs(t))
    /\ \A t \in Callers \cup Goroutines : SF_vars(InLock(t))

SpecSweepFair == InitSweep /\ [][NextSweep]_vars /\ FairSweep

----------------------------------------------------------------------------
(* Claims *)

\* a Job invocation begins on thread t
JobBegins(t) == inJob[t] = NoJob /\ inJob'[t] # NoJob

\* C1: once a call of Stop has returned, no new invocation of Job begins.
C1_NoJobAfterStop ==
    [][stopped => \A t \in Procs : ~JobBegins(t)]_vars

\* C2: when N threads have concurrently called Set, SetItem or SetToExpire
\* with N pairwise distinct keys on an empty Cache and all calls have
\* returned, Len() is N and Get finds every key with the value written for it.
C2_NoLostUpdates ==
    (\A t \in SetThreads : pc[t] = "idle") =>
        /\ MapLen(items) = NSet
        /\ \A t \in SetThreads : MapGet(items, t).ok /\ t \in DOMAIN lin /\ MapGet(items, t).value = lin[t].Value

C2_Witness ==
    /\ \A t \in SetThreads : pc[t] = "idle"
    /\ MapLen(items) = NSet
    /\ \E t, u \in SetThreads : items[t].Value # items[u].Value

\* the result a read call returns on the plain map m
ReadOf(m, a) ==
    IF a.op \in {"GetItem", "Get"} THEN [item |-> Lookup(m, a.key).item, ok |-> Lookup(m, a.key).ok]
    ELSE IF a.op = "Items" THEN [items |-> m]
    ELSE [len |-> MapLen(m)]

\* the map a writer between Lock and Unlock has to have produced so far from
\* the plain map m it found
WriteOf(m, t) ==
    IF pc[t] = "SetItem_Unlock" THEN MapStore(m, arg[t].key, arg[t].item)
    ELSE IF pc[t] = "Delete_Unlock" THEN MapDelete(m, arg[t].key)
    ELSE IF pc[t] = "Clear_Unlock" THEN EmptyMap
    ELSE IF pc[t] = "ClearExpired_range" THEN [k \in {x \in DOMAIN m : ~(x \in DOMAIN seen[t] /\ m[x].ExpiredAt # ZeroTime /\ seen[t][x] > m[x].ExpiredAt)} |-> m[k]]
    ELSE m

\* C3: a writer inside its critical section excludes every other thread,
\* readers overlap only with readers, and what the operations read and leave
\* behind is what the same operations, one after the other in the order of
\* their unlocks, read and leave behind on a plain map (lin).
C3_Linearizable ==
    /\ \A t, u \in Procs : (t # u /\ pc[t] \in WriterCs) => pc[u] \notin WriterCs \cup ReaderCs
    /\ mu.writer = (\E t \in Procs : pc[t] \in WriterCs)
    /\ mu.readers = Cardinality({t \in Procs : pc[t] \in ReaderCs})
    /\ (\A t \in Procs : pc[t] \notin WriterCs) => items = lin
    /\ \A t \in Procs : pc[t] \in WriterCs => items = WriteOf(lin, t)
    /\ \A t \in Procs : ret[t] # NoRet => ret[t] = ReadOf(lin, arg[t])

\* a ClearExpired scan is half done while another thread waits for the lock
C3_Witness ==
    \E t, u \in Procs :
        /\ pc[t] = "ClearExpired_range" /\ todo[t] # {} /\ items # lin
        /\ pc[u] \in {"GetItem_RLock", "Items_RLock", "Len_RLock"}

\* thread t takes the step that writes key k of the map
WritesKey(t, k) ==
    \/ pc[t] = "SetItem_store" /\ pc'[t] = "SetItem_Unlock" /\ arg[t].key = k
    \/ pc[t] = "Delete_delete" /\ pc'[t] = "Delete_Unlock" /\ arg[t].key = k
    \/ pc[t] = "Clear_make" /\ pc'[t] = "Clear_Unlock"
    \/ pc[t] = "ClearExpired_range" /\ k \in todo[t] /\ k \notin todo'[t]

\* what a reader holds is the map's content, expired entries included
ReadsExpired ==
    \A t \in Procs :
        /\ pc[t] = "GetItem_RUnlock" =>
              /\ ret[t].ok = (arg[t].key \in DOMAIN items)
              /\ arg[t].key \in DOMAIN items => ret[t].item = items[arg[t].key]
        /\ pc[t] = "Len_RUnlock" => ret[t].len = Cardinality(DOMAIN items)
        /\ pc[t] = "Items_RUnlock" => ret[t].items = items

\* C4: expiry is lazy. No step but the map write of SetItem(k), Delete(k),
\* Clear or ClearExpired removes or changes the entry of k, so neither the
\* clock nor a read does; and GetItem, Get, Len and Items return an entry
\* whose expiration has passed like any other.
C4_LazyExpiry ==
    [][ /\ \A k \in DOMAIN items : (k \notin DOMAIN items' \/ items'[k] # items[k]) => \E t \in Procs : WritesKey(t, k)
        /\ ReadsExpired' ]_vars

\* GetItem has found an entry whose expiration has passed
C4_Witness ==
    \E t \in Procs :
        /\ pc[t] = "GetItem_RUnlock" /\ ret[t].ok
        /\ ret[t].item.ExpiredAt # ZeroTime /\ clock > ret[t].item.ExpiredAt
        /\ MapLen(items) = 2

\* thread t has finished the scan of ClearExpired and not yet unlocked
ScanDone(t) == pc[t] = "ClearExpired_range" /\ todo[t] = {}

\* the keys of m whose entry has an expiration that s[k], the clock value read
\* for it, is strictly past
ExpiredKeys(m, s) == {k \in DOMAIN m : m[k].ExpiredAt # ZeroTime /\ s[k] > m[k].ExpiredAt}

\* C5: when ClearExpired has scanned the map (lin: the map it found), it has
\* read the clock once for every entry, removed exactly the entries whose
\* expiration that reading was past, left every other entry as it was, and
\* Len() is the number of entries found not expired; an entry without an
\* expiration is never removed.
C5_ClearExpiredExact ==
    \A t \in Procs : ScanDone(t) =>
        /\ DOMAIN seen[t] = DOMAIN lin
        /\ DOMAIN items = (DOMAIN lin) \ ExpiredKeys(lin, seen[t])
        /\ \A k \in DOMAIN items : items[k] = lin[k]
        /\ MapLen(items) = Cardinality((DOMAIN lin) \ ExpiredKeys(lin, seen[t]))
        /\ \A k \in DOMAIN lin : lin[k].ExpiredAt = ZeroTime => k \in DOMAIN items

\* a scan that removed one entry and kept one that has an expiration
C5_Witness ==
    \E t \in Procs :
        /\ ScanDone(t)
        /\ MapLen(lin) = 2 /\ MapLen(items) = 1
        /\ \E k \in DOMAIN items : items[k].ExpiredAt # ZeroTime

\* thread t has stored the item of its call and still holds the lock
Stored(t, op) == pc[t] = "SetItem_Unlock" /\ arg[t].op = op

\* C6: when Set(k, v) has stored its item, Get(k) is (v, true), the entry's
\* CreatedAt is the clock value Set read, it has no expiration, and the
\* entries of all other keys are those of before the call.
C6_SetThenGet ==
    \A t \in Procs : Stored(t, "Set") =>
        /\ MapGet(items, arg[t].key) = [value |-> arg[t].value, ok |-> TRUE]
        /\ Lookup(items, arg[t].key).item.CreatedAt = arg[t].now
        /\ Lookup(items, arg[t].key).item.ExpiredAt = ZeroTime
        /\ \A j \in Keys \ {arg[t].key} : Lookup(items, j) = Lookup(lin, j)

\* Set has replaced an entry that had another value and an expiration
C6_Witness ==
    \E t \in Procs :
        /\ Stored(t, "Set")
        /\ arg[t].key \in DOMAIN lin
        /\ lin[arg[t].key].Value # arg[t].value
        /\ lin[arg[t].key].ExpiredAt # ZeroTime
        /\ MapLen(items) = 2

\* C7: SetToExpire(k, v, L) with L > 0 stores an entry with CreatedAt the
\* clock value it read and ExpiredAt = CreatedAt + L, and IsExpired on it is
\* true exactly when the clock is strictly past CreatedAt + L.
C7_ExpiresAfterLifetime ==
    \A t \in Procs : (Stored(t, "SetToExpire") /\ arg[t].life > 0) =>
        /\ arg[t].key \in DOMAIN items
        /\ items[arg[t].key].CreatedAt = arg[t].now
        /\ items[arg[t].key].ExpiredAt = items[arg[t].key].CreatedAt + arg[t].life
        /\ IsExpired(items[arg[t].key], clock) = (clock > arg[t].now + arg[t].life)

\* the clock has passed the expiration of an entry SetToExpire stored
C7_Witness ==
    \E t \in Procs :
        /\ Stored(t, "SetToExpire") /\ arg[t].life > 0
        /\ clock > arg[t].now + arg[t].life
        /\ IsExpired(items[arg[t].key], clock)

\* C8 as stated: an entry stored by SetToExpire with a zero or negative
\* lifetime is expired at once, without the clock having to advance.
C8_ExpiredAtBirth ==
    \A t \in Procs : (Stored(t, "SetToExpire") /\ arg[t].life <= 0) =>
        /\ arg[t].key \in DOMAIN items
        /\ IsExpired(items[arg[t].key], clock)

\* C8, amended: SetToExpire with a zero or negative lifetime L stores an entry
\* with ExpiredAt = CreatedAt + L. With L < 0 it is expired at once; with
\* L = 0 it is expired exactly when the clock is strictly past the value
\* SetToExpire read. A ClearExpired removes such an entry exactly when the
\* clock value its scan reads for it is strictly past ExpiredAt.
C8_ExpiredOncePast ==
    /\ \A t \in Procs : (Stored(t, "SetToExpire") /\ arg[t].life <= 0) =>
        /\ arg[t].key \in DOMAIN items
        /\ items[arg[t].key].ExpiredAt = arg[t].now + arg[t].life
        /\ IsExpired(items[arg[t].key], clock) = (arg[t].life < 0 \/ clock > arg[t].now)
    /\ \A t \in Procs : \A k \in DOMAIN seen[t] :
        (k \in DOMAIN lin /\ lin[k].ExpiredAt # ZeroTime /\ lin[k].ExpiredAt <= lin[k].CreatedAt) =>
            (k \notin DOMAIN items) = (seen[t][k] > lin[k].ExpiredAt)

\* SetToExpire with lifetime 0 has stored an entry and the clock still shows
\* the value it read: the entry is not expired
C8_Witness ==
    \E t \in Procs :
        /\ Stored(t, "SetToExpire") /\ arg[t].life = 0
        /\ clock = arg[t].now
        /\ ~IsExpired(items[arg[t].key], clock)

\* a call of Stop has started or returned
StopRequested == stopped \/ \E t \in Procs : pc[t] \in {"Stop_check", "Stop_stop"}

\* a tick that finds Job nil: the loop goes back to wait for the next tick
\* and nothing else changes
NilJobTick(t) ==
    (pc[t] = "Start_job" /\ pc'[t] # "Start_job" /\ job = NilJob) =>
        /\ pc'[t] = "Start_recv"
        /\ UNCHANGED <<clock, items, mu, arg, todo, seen, ret, lin, tickVars>>

\* C9: the tick loop goes on when a tick finds Job nil; the function a tick
\* invokes is the one Job holds when the tick calls it; and, as long as Stop
\* is not called, the loop again and again finds Job nil or invokes the
\* function Job holds, so that a function assigned to Job and left there is
\* eventually invoked.
C9_JobEventuallyInvoked ==
    /\ [][\A t \in Procs : NilJobTick(t) /\ (JobBegins(t) => inJob'[t] = job)]_vars
    /\ [](invoked # NoJob => invoked = job)
    /\ []<>(job = NilJob \/ invoked = job \/ StopRequested)

\* the loop has invoked the function assigned to Job
C9_Witness ==
    \E t \in Goroutines :
        /\ job = "other" /\ invoked = "other" /\ inJob[t] = "other"
        /\ ~StopRequested

\* the scan of a Job invocation thread t makes is over
SweepDone(t) == inJob[t] = "sweep" /\ ScanDone(t)

\* C10: with Job a function that calls ClearExpired, an entry stored with
\* SetToExpire leaves the cache only in the scan of a Job invocation (Len
\* counts it until then, expired or not); when such a scan is over, no entry
\* it found expired is left; and, as long as Stop is not called and Job stays
\* that function, the cache is empty again and again unless a write is in
\* progress.
C10_SweptByTick ==
    /\ [][\A k \in DOMAIN items : k \notin DOMAIN items' => \E t \in Procs : inJob[t] = "sweep" /\ pc[t] = "ClearExpired_range" /\ k \in todo[t]]_vars
    /\ [](\A t \in Procs : pc[t] = "Len_RUnlock" => ret[t].len = Cardinality(DOMAIN items))
    /\ [](\A t \in Procs : SweepDone(t) => \A k \in DOMAIN items : seen[t][k] <= items[k].ExpiredAt)
    /\ []<>(MapLen(items) = 0 \/ job # "sweep" \/ StopRequested \/ \E t \in Procs : pc[t] \in {"SetItem_Lock", "SetItem_store", "SetItem_Unlock"})

\* the scan of a Job invocation has emptied a cache of two expired entries
C10_Witness ==
    \E t \in Goroutines :
        /\ SweepDone(t)
        /\ MapLen(lin) = 2 /\ MapLen(items) = 0
        /\ ~StopRequested

\* C13: when Delete(k) has done its delete, k is absent and Get(k) finds
\* nothing, the entry of every other key is the one of before the call, the
\* store is unchanged if k was absent, and a second Delete(k) would change
\* nothing.
C13_DeleteRemovesOnlyKey ==
    \A t \in Procs : pc[t] = "Delete_Unlock" =>
        /\ arg[t].key \notin DOMAIN items
        /\ MapGet(items, arg[t].key) = [value |-> ZeroValue, ok |-> FALSE]
        /\ \A k \in Keys \ {arg[t].key} : Lookup(items, k) = Lookup(lin, k)
        /\ arg[t].key \notin DOMAIN lin => items = lin
        /\ MapDelete(items, arg[t].key) = items

\* Delete has removed an entry and left the entry of the other key
C13_Witness ==
    \E t \in Procs :
        /\ pc[t] = "Delete_Unlock"
        /\ arg[t].key \in DOMAIN lin
        /\ MapLen(items) = 1 /\ MapLen(lin) = 2

\* Len is 0 and GetItem and Get find no key
EmptyStore(m) ==
    /\ MapLen(m) = 0
    /\ \A k \in Keys : Lookup(m, k) = [item |-> ZeroItem, ok |-> FALSE]
    /\ \A k \in Keys : MapGet(m, k) = [value |-> ZeroValue, ok |-> FALSE]

\* C14: the store is empty after NewCache and when Clear has replaced the map,
\* whatever it held, and an empty store stays empty until SetItem stores an
\* entry.
C14_EmptyAfterClear ==
    /\ EmptyStore(items)
    /\ [](\A t \in Procs : pc[t] = "Clear_Unlock" => EmptyStore(items))
    /\ [][(EmptyStore(items) /\ ~EmptyStore(items')) => \E t \in Procs : pc[t] = "SetItem_store" /\ pc'[t] = "SetItem_Unlock"]_vars

\* Clear has emptied a store that held an expired and an unexpired entry
C14_Witness ==
    \E t \in Procs :
        /\ pc[t] = "Clear_Unlock"
        /\ EmptyStore(items)
        /\ \E k \in DOMAIN lin : IsExpired(lin[k], clock)
        /\ \E k \in DOMAIN lin : ~IsExpired(lin[k], clock)

\* C19: an update replaces the entry wholesale. Set on a key that holds an
\* entry leaves exactly the item Set built: no expiration, so that no scan of
\* ClearExpired at any later clock value removes it; SetToExpire leaves
\* CreatedAt and ExpiredAt of the new call's clock value; SetItem leaves the
\* item handed to it.
C19_UpdateReplaces ==
    \A t \in Procs : (pc[t] = "SetItem_Unlock" /\ arg[t].key \in DOMAIN lin) =>
        /\ Stored(t, "Set") =>
              /\ items[arg[t].key] = [Value |-> arg[t].value, CreatedAt |-> arg[t].now, ExpiredAt |-> ZeroTime]
              /\ \A c \in ClockStart..(MaxClock + MaxLife + 1) : arg[t].key \in DOMAIN Swept(items, [k \in DOMAIN items |-> c])
        /\ Stored(t, "SetToExpire") =>
              items[arg[t].key] = [Value |-> arg[t].value, CreatedAt |-> arg[t].now, ExpiredAt |-> arg[t].now + arg[t].life]
        /\ Stored(t, "SetItem") => items[arg[t].key] = arg[t].item

\* Set has replaced an entry that had expired
C19_Witness ==
    \E t \in Procs :
        /\ Stored(t, "Set")
        /\ arg[t].key \in DOMAIN lin
        /\ IsExpired(lin[arg[t].key], clock)
        /\ IsZero(items[arg[t].key].ExpiredAt)

\* C12: the map Items has built under the read lock has the key set of the
\* store and, for every key, the entry GetItem finds, so its length is Len();
\* a change the caller makes to the returned map changes nothing of the
\* store; and a change of the store changes nothing of the returned map.
C12_ItemsIsACopy ==
    /\ [](\A t \in Procs : pc[t] = "Items_RUnlock" =>
            /\ DOMAIN ret[t].items = DOMAIN items
            /\ \A k \in Keys : Lookup(ret[t].items, k) = Lookup(items, k)
            /\ MapLen(ret[t].items) = MapLen(items))
    /\ [][\A t \in Procs : (pc[t] = "Items_held" /\ ret'[t] # ret[t]) => (items' = items /\ lin' = lin)]_vars
    /\ [][\A t \in Procs : (pc[t] = "Items_held" /\ pc'[t] = "Items_held" /\ items' # items) => ret'[t] = ret[t]]_vars

\* the caller has added a key to the returned map that the store does not
\* hold, and the store has since got a key the returned map does not hold
C12_Witness ==
    \E t \in Holders :
        /\ pc[t] = "Items_held"
        /\ (DOMAIN ret[t].items) \ (DOMAIN items) # {}
        /\ (DOMAIN items) \ (DOMAIN ret[t].items) # {}

\* a step of Stop by thread t on a TickingCache whose ticker is nil or is
\* stopped already: Stop returns, and the store, Job and the tickers are as
\* they were
StopNoOp(t) ==
    LET never == pc[t] = "Stop_check" /\ pc'[t] # "Stop_check" /\ ticker = NilTicker
        again == pc[t] = "Stop_stop" /\ pc'[t] # "Stop_stop" /\ ~timers[ticker].active
    IN  (never \/ again) =>
            /\ pc'[t] = "idle"
            /\ UNCHANGED <<clock, items, mu, lin, ticker, job, timers, ch, inJob>>

\* C15: Stop on a TickingCache whose ticker has not been created, or has been
\* stopped already, returns and changes neither the store, nor Job, nor any
\* ticker; the ticker Stop calls Stop on is never nil.
C15_StopIsNoOp ==
    /\ [][\A t \in Procs : StopNoOp(t)]_vars
    /\ [](\A t \in Procs : pc[t] = "Stop_stop" => ticker \in DOMAIN timers)

\* a second Stop is about to stop a ticker that an earlier Stop has stopped
\* with a tick left in its channel
C15_Witness ==
    \E t \in Procs :
        /\ pc[t] = "Stop_stop" /\ stopped
        /\ ~timers[ticker].active /\ timers[ticker].buf = 1

\* the tickers that are running
ActiveTimers == {id \in DOMAIN timers : timers[id].active}

\* C11: at most one ticker of the TickingCache is running.
C11_OneActiveTimer == Cardinality(ActiveTimers) <= 1

\* C17: at no moment are two invocations of Job in progress.
C17_NoOverlap == Cardinality({t \in Procs : inJob[t] # NoJob}) <= 1

\* the ticker whose channel the loop of thread t receives from is stopped
LoopStopped(t) == ch[t] \in DOMAIN timers /\ ~timers[ch[t]].active

\* C18: a ticker is created running, only Stop stops it, and a stopped ticker
\* never runs again and sends no tick; a Start called after Stop creates
\* another ticker, running, and leaves the others as they are; and Job is
\* invoked again and again on the ticks of that ticker as long as Job is not
\* nil and the ticker is not stopped.
C18_RestartAfterStop ==
    /\ [][\A id \in DOMAIN timers : ~timers[id].active => (~timers'[id].active /\ timers'[id].buf <= timers[id].buf)]_vars
    /\ [][\A id \in DOMAIN timers : (timers[id].active /\ ~timers'[id].active) => \E t \in Procs : pc[t] = "Stop_stop" /\ pc'[t] = "idle"]_vars
    /\ [][\A t \in Procs : (pc[t] = "Start_NewTicker" /\ pc'[t] # "Start_NewTicker") =>
            /\ ticker' \notin DOMAIN timers
            /\ timers'[ticker'].active /\ timers'[ticker'].buf = 0
            /\ \A id \in DOMAIN timers : timers'[id] = timers[id]]_vars
    /\ \A t \in Starters : []<>(pc[t] = "unborn" \/ job = NilJob \/ LoopStopped(t) \/ \E g \in Loops : ch[g] = ch[t] /\ inJob[g] # NoJob)

\* Stop has stopped the first ticker, and the loop of a Start called
\* afterwards has invoked Job on a tick of the second
C18_Witness ==
    \E t \in Starters :
        /\ stopped /\ ActiveTimers = {ch[t]}
        /\ Cardinality(DOMAIN timers) = 2
        /\ \A u \in Goroutines : LoopStopped(u)
        /\ inJob[t] # NoJob

\* the next step of thread t reads tc.Job, writes tc.Job, reads tc.ticker,
\* writes tc.ticker; none of these steps holds a lock or is atomic
ReadsJob(t) == pc[t] \in {"Start_job", "Start_call"}
WritesJob(t) == t \in TickCallers /\ \E j \in Jobs \cup {NilJob} : ENABLED AssignJob(t, j)
ReadsTicker(t) == pc[t] \in {"Start_range", "Stop_check", "Stop_stop"}
WritesTicker(t) == pc[t] = "Start_NewTicker"

\* C20: in no reachable state are an access to Job, or to ticker, by one
\* thread and a write of the same field by another thread both the next step
\* of their threads, with nothing that orders them.
C20_NoDataRace ==
    \A t, u \in TickCallers \cup Loops : t # u =>
        /\ ~(WritesJob(t) /\ (ReadsJob(u) \/ WritesJob(u)))
        /\ ~(WritesTicker(t) /\ (ReadsTicker(u) \/ WritesTicker(u)))

\* thread t is inside an invocation of Job
InJob(t) == inJob[t] # NoJob

\* C16: while an invocation of Job does not return, its tick loop takes no
\* step, so no further invocation of Job begins; the loop holds the mutex
\* neither as writer nor as reader; and every call of a Cache method by
\* another thread returns.
C16_HangingJobBlocksOnlyTicks ==
    /\ [][\A g \in Loops : InJob(g) => (pc'[g] = pc[g] /\ inJob'[g] = inJob[g] /\ \A u \in Procs : ~JobBegins(u))]_vars
    /\ [](\A g \in Loops : InJob(g) =>
            /\ pc[g] \notin WriterCs \cup ReaderCs
            /\ mu.writer = (\E t \in Procs \ {g} : pc[t] \in WriterCs)
            /\ mu.readers = Cardinality({t \in Procs \ {g} : pc[t] \in ReaderCs}))
    /\ \A t \in Callers : []<>(pc[t] = "idle")

\* Job does not return, a tick it keeps from being handled waits in the
\* channel, and a caller has nevertheless completed the scan of ClearExpired
C16_Witness ==
    \E g \in Loops, t \in Callers :
        /\ InJob(g) /\ timers[ch[g]].buf = 1
        /\ ScanDone(t) /\ MapLen(lin) = 2 /\ MapLen(items) = 1

\* the positions at which a thread waits to acquire the mutex
LockWaitPcs == {"SetItem_Lock", "Delete_Lock", "Clear_Lock", "ClearExpired_Lock", "GetItem_RLock", "Items_RLock", "Len_RLock"}

\* the mutex lets thread t, which waits for it, in
CanAcquire(t) ==
    IF pc[t] \in {"GetItem_RLock", "Items_RLock", "Len_RLock"}
    THEN CanRLock
    ELSE CanLock /\ mu.pending \subseteq {t}

\* thread t holds the mutex, as writer or as reader
HoldsLock(t) == pc[t] \in WriterCs \cup ReaderCs

\* C21: with Job = ClearExpired and callers of every Cache method, the mutex
\* is held by exactly the threads inside a critical section, so no thread
\* waits for the mutex or calls Job while holding it; while a thread waits,
\* another thread holds the mutex or a waiting thread can acquire it; and
\* under fair lock
\* scheduling every call of a method returns and every invocation of Job
\* returns.
C21_NoDeadlock ==
    /\ [](mu.writer = (\E t \in Procs : pc[t] \in WriterCs))
    /\ [](mu.readers = Cardinality({t \in Procs : pc[t] \in ReaderCs}))
    /\ [](\A t \in Procs : pc[t] \in LockWaitPcs =>
            \/ \E u \in Procs \ {t} : HoldsLock(u)
            \/ \E u \in Procs : pc[u] \in LockWaitPcs /\ CanAcquire(u))
    /\ \A t \in Callers : []<>(pc[t] = "idle")
    /\ \A g \in Goroutines : []<>(pc[g] = "Start_recv")

\* C21 witness: Job = ClearExpired holds the mutex in its scan while one
\* caller waits to write and the other waits to read
C21_Witness ==
    \E g \in Goroutines :
        /\ pc[g] = "ClearExpired_range" /\ InJob(g)
        /\ \E t, u \in Callers :
            /\ pc[t] \in {"SetItem_Lock", "Delete_Lock", "Clear_Lock", "ClearExpired_Lock"}
            /\ pc[u] \in {"GetItem_RLock", "Items_RLock", "Len_RLock"}
        /\ items # EmptyMap

\* the loop of thread t waits for a tick of a stopped ticker whose channel is
\* empty
Blocked(t) == pc[t] = "Start_recv" /\ LoopStopped(t) /\ timers[ch[t]].buf = 0

\* C22: Stop does not end the tick loop. No call of Start returns, neither
\* the one in NewTickingCache's goroutine nor a direct one, because no channel
\* of a ticker is ever closed; a loop that waits for a tick of a stopped
\* ticker with an empty channel waits for ever; and a loop whose ticker has
\* been stopped comes to wait like that, unless the program panics.
C22_StopLeavesLoopBlocked ==
    /\ [](\A t \in Loops : pc[t] # "Start_return")
    /\ [](\A id \in DOMAIN timers : ~timers[id].closed)
    /\ [][\A t \in Loops : Blocked(t) => Blocked(t)']_vars
    /\ \A t \in Loops : LoopStopped(t) ~> (Blocked(t) \/ Crashed)

\* C22 witness: after Job has been invoked and Stop has returned, the
\* goroutine of NewTickingCache and the thread that called Start both wait
\* for a tick of a stopped ticker
C22_Witness ==
    /\ stopped /\ invoked # NoJob
    /\ \A t \in TickCallers : pc[t] = "idle"
    /\ \A t \in Loops : Blocked(t)

====
